---- MODULE Spec2Model ----
(***************************************************************************)
(* 3d-qr-code-generator: the ThreeDScene of src/src/main.ts (and its older *)
(* variant src/main.js), the WiFi payload builder and the form handler.    *)
(*                                                                         *)
(* JavaScript runs every handler to completion, so each handler (a redraw, *)
(* a rendered frame, an export, a form submission) is one action.          *)
(* Numbers are modelled as exact fractions n/d (d = 0 stands for Infinity  *)
(* and NaN, which 80 / 0 and 0 * Infinity produce); IEEE-754 rounding is   *)
(* not modelled.                                                           *)
(***************************************************************************)
EXTENDS Integers, Sequences, FiniteSets, TLC

VARIABLES scene, qrGroup, drawn, last, data, content, contentJs

vars == <<scene, qrGroup, drawn, last, data, content, contentJs>>

(***************************************************************************)
(* Bounds of the model.                                                    *)
(***************************************************************************)
\* grids of every size 0 .. MaxSize are enumerated
MaxSize == 2
\* with at most MaxDark dark modules each
MaxDark == 2

(***************************************************************************)
(* Program constants.                                                      *)
(***************************************************************************)
barcodeSizeMm == 80
baseThicknessMm == 5
qrThicknessMm == 2
qrBorderMm == 5

(***************************************************************************)
(* JavaScript numbers, as fractions in lowest terms with d >= 0.           *)
(***************************************************************************)
Abs(i) == IF i < 0 THEN -i ELSE i

Sign(i) == IF i < 0 THEN -1 ELSE IF i = 0 THEN 0 ELSE 1

RECURSIVE Gcd(_, _)
Gcd(a, b) == IF b = 0 THEN a ELSE Gcd(b, a % b)

Frac(n, d) ==
  IF d = 0 THEN [n |-> Sign(n), d |-> 0]
  ELSE IF d = 1 THEN [n |-> n, d |-> 1]
  ELSE LET g == Gcd(Abs(n), Abs(d))
       IN [n |-> (Sign(d) * n) \div g, d |-> Abs(d) \div g]

Num(i) == [n |-> i, d |-> 1]

NumAdd(a, b) == Frac(a.n * b.d + b.n * a.d, a.d * b.d)

NumNeg(a) == [n |-> -a.n, d |-> a.d]

NumSub(a, b) == NumAdd(a, NumNeg(b))

NumMul(a, b) == Frac(a.n * b.n, a.d * b.d)

\* x / 0 is Infinity (or NaN for 0 / 0), as in JavaScript
NumDiv(a, b) ==
  IF b.n = 0 THEN Frac(a.n, 0)
  ELSE Frac(a.n * b.d * Sign(b.n), a.d * Abs(b.n))

IsFinite(a) == a.d > 0

\* a < b and a <= b on finite numbers
NumLt(a, b) == a.n * b.d < b.n * a.d

NumLe(a, b) == a.n * b.d <= b.n * a.d

(***************************************************************************)
(* The QR code object handed to drawBarcode: its size and its dark modules.*)
(***************************************************************************)
Cells(size) == (0 .. size - 1) \X (0 .. size - 1)

GridsOfSize(size) ==
  { [size |-> size, modules |-> m] :
      m \in { s \in SUBSET Cells(size) : Cardinality(s) <= MaxDark } }

\* the all-false grid of size 10
EmptyGrid10 == [size |-> 10, modules |-> {}]

Grids == UNION { GridsOfSize(s) : s \in 0 .. MaxSize } \cup {EmptyGrid10}

\* a placeholder for "no QR code"
NoGrid == [size |-> -1, modules |-> {}]

\* the border arguments tried
Borders == {-1, 0, qrBorderMm}

getModule(qr, x, y) ==
  /\ 0 <= x /\ x < qr.size
  /\ 0 <= y /\ y < qr.size
  /\ <<x, y>> \in qr.modules

(***************************************************************************)
(* three.js objects: a Mesh of a BoxGeometry, a Group, the Scene's         *)
(* children. Object identity is the id field.                              *)
(***************************************************************************)
Mesh(width, height, depth, color, x, y, z) ==
  [geometry |-> [width |-> width, height |-> height, depth |-> depth],
   color |-> color,
   position |-> [x |-> x, y |-> y, z |-> z]]

\* 0x404040 and 0xffffff
colorDark == 4210752
colorLight == 16777215

NewGroup(id) == [type |-> "Group", id |-> id, children |-> <<>>]

PointLight == [type |-> "PointLight", id |-> -1, children |-> <<>>]

RECURSIVE SeqRemove(_, _)
SeqRemove(s, id) ==
  IF s = <<>> THEN <<>>
  ELSE IF Head(s).id = id THEN SeqRemove(Tail(s), id)
  ELSE <<Head(s)>> \o SeqRemove(Tail(s), id)

\* Object3D.remove: drops the object when it is a child, else nothing
SceneRemove(sc, obj) == SeqRemove(sc, obj.id)

\* Object3D.add: appends the object (detaching it first when already a child)
SceneAdd(sc, obj) == Append(SeqRemove(sc, obj.id), obj)

\* the identity of a newly allocated object: one no live object has
FreshId(this) ==
  LET live == {this.qrGroup.id} \cup { this.scene[i].id : i \in 1 .. Len(this.scene) }
  IN CHOOSE i \in 0 .. Cardinality(live) : i \notin live /\ \A j \in 0 .. i - 1 : j \in live

(***************************************************************************)
(* ThreeDScene                                                             *)
(***************************************************************************)
\* constructor: the scene holds the light; qrGroup is a new group outside it
NewThreeDScene == [scene |-> <<PointLight>>, qrGroup |-> NewGroup(0)]

\* the scene's children with the child of group's identity updated
RECURSIVE SeqUpdate(_, _)
SeqUpdate(s, group) ==
  IF s = <<>> THEN <<>>
  ELSE <<IF Head(s).id = group.id THEN group ELSE Head(s)>> \o SeqUpdate(Tail(s), group)

\* qrGroup.add(cube): the group is also the scene's child of that identity
QrGroupAdd(this, cubes) ==
  LET group == [this.qrGroup EXCEPT !.children = @ \o cubes]
  IN [scene |-> SeqUpdate(this.scene, group), qrGroup |-> group]

\* drawBarcodeModule with position.set(x, y, ...): the y axis not flipped
drawBarcodeModuleNoFlip(x, y, size, thickness) ==
  Mesh(size, size, thickness, colorDark, x, y, NumDiv(thickness, Num(2)))

\* the cube drawBarcodeModule adds to qrGroup
drawBarcodeModule(x, y, size, thickness) ==
  Mesh(size, size, thickness, colorDark, x, NumNeg(y), NumDiv(thickness, Num(2)))

\* drawBarcodeBackground with position.set(0, 0, 0): the plate not lowered
drawBarcodeBackgroundCentred(height, width, thickness) ==
  Mesh(height, width, thickness, colorLight, Num(0), Num(0), Num(0))

\* the cube drawBarcodeBackground adds to qrGroup
drawBarcodeBackground(height, width, thickness) ==
  Mesh(height, width, thickness, colorLight,
       Num(0), Num(0), NumDiv(NumNeg(thickness), Num(2)))

\* the guard of drawCanvas (border < 0) used in drawBarcode
BorderNegative(border) == border < 0

\* the guard of drawBarcode
BorderOutOfRange(border) == border <= 0

\* ReplaceGroup without qrGroup = new Group(): the old group is added again
ReplaceGroupKeep(this) ==
  [scene |-> SceneAdd(SceneRemove(this.scene, this.qrGroup), this.qrGroup),
   qrGroup |-> this.qrGroup]

\* ReplaceGroup without scene.remove(qrGroup): the old group stays in the scene
ReplaceGroupNoRemove(this) ==
  LET group == NewGroup(FreshId(this))
  IN [scene |-> SceneAdd(this.scene, group), qrGroup |-> group]

\* scene.remove(qrGroup); qrGroup = new Group(); scene.add(qrGroup)
ReplaceGroup(this) ==
  LET removed == SceneRemove(this.scene, this.qrGroup)
      group == NewGroup(FreshId(this))
  IN [scene |-> SceneAdd(removed, group), qrGroup |-> group]

\* the inner loop over x of row y: the cubes added, in order
RECURSIVE DrawRow(_, _, _, _, _)
DrawRow(qr, scale, barcodeSize, y, x) ==
  IF x >= qr.size THEN <<>>
  ELSE (IF getModule(qr, x, y)
        THEN << drawBarcodeModule(
                  NumAdd(NumSub(NumMul(Num(x), scale), NumDiv(barcodeSize, Num(2))),
                         NumDiv(scale, Num(2))),
                  NumAdd(NumSub(NumMul(Num(y), scale), NumDiv(barcodeSize, Num(2))),
                         NumDiv(scale, Num(2))),
                  scale,
                  Num(qrThicknessMm)) >>
        ELSE <<>>)
       \o DrawRow(qr, scale, barcodeSize, y, x + 1)

\* the outer loop over y
RECURSIVE DrawModules(_, _, _, _)
DrawModules(qr, scale, barcodeSize, y) ==
  IF y >= qr.size THEN <<>>
  ELSE DrawRow(qr, scale, barcodeSize, y, 0) \o DrawModules(qr, scale, barcodeSize, y + 1)

\* drawBarcode: the object afterwards, and whether it threw
drawBarcode(this, qr, border) ==
  IF BorderOutOfRange(border)
  THEN [this |-> this, error |-> "RangeError: Value out of range"]
  ELSE LET replaced == ReplaceGroup(this)
           scale == NumDiv(Num(barcodeSizeMm), Num(qr.size))
           barcodeSize == NumMul(Num(qr.size), scale)
           modules == QrGroupAdd(replaced, DrawModules(qr, scale, barcodeSize, 0))
       IN [this |-> QrGroupAdd(modules,
                      << drawBarcodeBackground(
                           Num(barcodeSizeMm + border * 2),
                           Num(barcodeSizeMm + border * 2),
                           Num(baseThicknessMm)) >>),
           error |-> "none"]

(***************************************************************************)
(* What a traversal of the scene visits: every mesh, with the group it is  *)
(* a child of. The renderer and the exporter both read the scene this way. *)
(***************************************************************************)
RECURSIVE Visit(_, _)
Visit(children, id) ==
  IF children = <<>> THEN <<>>
  ELSE <<[group |-> id, mesh |-> Head(children)]>> \o Visit(Tail(children), id)

RECURSIVE Traverse(_)
Traverse(sc) ==
  IF sc = <<>> THEN <<>>
  ELSE Visit(Head(sc).children, Head(sc).id) \o Traverse(Tail(sc))

(***************************************************************************)
(* STLExporter.parse(scene, { binary: true }), a three.js class outside    *)
(* this repository: 80 header bytes, the triangle count as a uint32, then  *)
(* per triangle a normal and three vertices as float32 and a uint16.       *)
(***************************************************************************)
\* a BoxGeometry has 6 faces of 2 triangles
TrianglesOf(mesh) == 6 * 2

RECURSIVE CountTriangles(_)
CountTriangles(objects) ==
  IF objects = <<>> THEN 0
  ELSE TrianglesOf(Head(objects).mesh) + CountTriangles(Tail(objects))

\* the writes after the header: the offset and the records written so far
RECURSIVE WriteFaces(_, _, _)
WriteFaces(objects, offset, records) ==
  IF objects = <<>> THEN [offset |-> offset, records |-> records]
  ELSE LET n == TrianglesOf(Head(objects).mesh)
       IN WriteFaces(Tail(objects), offset + n * (3 * 4 + 3 * 3 * 4 + 2), records + n)

STLExporterParse(sc) ==
  LET objects == Traverse(sc)
      triangles == CountTriangles(objects)
      bufferLength == triangles * 2 + triangles * 3 * 4 * 4 + 80 + 4
      written == WriteFaces(objects, 80 + 4, 0)
  IN [byteLength |-> bufferLength, header |-> triangles,
      records |-> written.records, end |-> written.offset]

NoStl == [byteLength |-> -1, header |-> -1, records |-> -1, end |-> -1]

(***************************************************************************)
(* FormData and JavaScript values (a string or null or undefined).         *)
(***************************************************************************)
JsString(s) == [t |-> "string", s |-> s]

JsNull == [t |-> "null", s |-> ""]

JsUndefined == [t |-> "undefined", s |-> ""]

\* truthiness: null, undefined and the empty string are falsy
Truthy(v) == v.t = "string" /\ v.s # ""

\* a || b
JsOr(a, b) == IF Truthy(a) THEN a ELSE b

\* `${v}`
TemplateString(v) == IF v.t = "string" THEN v.s ELSE v.t

Fields == {"ssid", "security", "password", "hidden"}

\* FormData.get: the first value of the field, or null
FormGet(form, k) == IF form[k] = <<>> THEN JsNull ELSE JsString(form[k][1])

FormHas(form, k) == form[k] # <<>>

FormSet(form, k, v) == [form EXCEPT ![k] = <<v>>]

RECURSIVE Join(_, _)
Join(parts, sep) ==
  IF parts = <<>> THEN ""
  ELSE IF Len(parts) = 1 THEN parts[1]
  ELSE parts[1] \o sep \o Join(Tail(parts), sep)

\* getWifiEasyConnectUri with the password segment forgotten
getWifiEasyConnectUriNoPassword(form) ==
  LET parts0 == << "S:" \o TemplateString(FormGet(form, "ssid")) >>
      parts1 ==
        IF JsOr(FormGet(form, "security"), JsString("none")) # JsString("none")
        THEN parts0 \o << "T:" \o TemplateString(FormGet(form, "security")) >>
        ELSE parts0
      parts2 == IF Truthy(FormGet(form, "hidden")) THEN Append(parts1, "H:true") ELSE parts1
  IN "WIFI:" \o Join(parts2, ";")

\* src/src/main.ts
getWifiEasyConnectUri(form) ==
  LET parts0 == << "S:" \o TemplateString(FormGet(form, "ssid")) >>
      parts1 ==
        IF JsOr(FormGet(form, "security"), JsString("none")) # JsString("none")
        THEN parts0 \o << "T:" \o TemplateString(FormGet(form, "security")),
                          "P:" \o TemplateString(FormGet(form, "password")) >>
        ELSE parts0
      parts2 == IF Truthy(FormGet(form, "hidden")) THEN Append(parts1, "H:true") ELSE parts1
  IN "WIFI:" \o Join(parts2, ";")

\* src/main.js: FormData.get takes one argument, the second is ignored
getWifiEasyConnectUriJs(form) ==
  LET parts0 == << "S:" \o TemplateString(FormGet(form, "ssid")) >>
      parts1 ==
        IF FormGet(form, "security") # JsString("none")
        THEN parts0 \o << "T:" \o TemplateString(FormGet(form, "security")),
                          "P:" \o TemplateString(FormGet(form, "password")) >>
        ELSE parts0
      parts2 == IF Truthy(FormGet(form, "hidden")) THEN Append(parts1, "H:true") ELSE parts1
  IN "WIFI:" \o Join(parts2, ";")

\* the form inputs tried on the payload builder
Forms ==
  { [ssid |-> s, security |-> t, password |-> p, hidden |-> h] :
      s \in {<<"">>, <<"Home">>},
      t \in {<<>>, <<"">>, <<"none">>, <<"WPA">>, <<"WEP">>},
      p \in {<<>>, <<"">>, <<"secret">>},
      h \in {<<>>, <<"">>, <<"on">>} }

FormHomeOpen == [ssid |-> <<"Home">>, security |-> <<"none">>, password |-> <<>>, hidden |-> <<>>]

FormHomeWpa == [ssid |-> <<"Home">>, security |-> <<"WPA">>, password |-> <<"secret">>, hidden |-> <<"on">>]

FormNoSecurity == [ssid |-> <<"Home">>, security |-> <<>>, password |-> <<"secret">>, hidden |-> <<>>]

\* the forms submitted in the running program
SubmitForms == {FormHomeWpa, FormNoSecurity}

NoForm == [k \in Fields |-> <<>>]

(***************************************************************************)
(* qrcodegen.QrCode.encodeText(text, Ecc.LOW), in ./qrcodegen: an opaque   *)
(* encoder that either rejects the text or returns a square grid.          *)
(***************************************************************************)
EncodedGrids ==
  { [size |-> 1, modules |-> {<<0, 0>>}],
    [size |-> 2, modules |-> {<<0, 0>>, <<1, 1>>}],
    EmptyGrid10 }

encodeText(text) ==
  {[threw |-> TRUE, qr |-> NoGrid]} \cup { [threw |-> FALSE, qr |-> g] : g \in EncodedGrids }

generateQrCode(qrContent) == encodeText(qrContent)

\* the submit handler's FormData: security is set to WPA when absent
SubmittedData(form) ==
  IF ~FormHas(form, "security") THEN FormSet(form, "security", "WPA") ELSE form

\* submitHandler with the old group removed before the payload is encoded
submitHandlerClearsFirst(this, uri, encoded) ==
  IF encoded.threw
  THEN [this |-> [scene |-> SceneRemove(this.scene, this.qrGroup), qrGroup |-> this.qrGroup],
        error |-> "EncodingFailed", logged |-> uri]
  ELSE drawBarcode(this, encoded.qr, qrBorderMm) @@ [logged |-> uri]

\* the submit handler from the payload on: the payload is logged, then encoding
\* it threw or its grid is drawn
submitHandler(this, uri, encoded) ==
  IF encoded.threw
  THEN [this |-> this, error |-> "EncodingFailed", logged |-> uri]
  ELSE drawBarcode(this, encoded.qr, qrBorderMm) @@ [logged |-> uri]

(***************************************************************************)
(* The running program: the state after main() constructed the scene, and  *)
(* one action per handler.                                                 *)
(***************************************************************************)
NoDraw == [qr |-> NoGrid, border |-> 0]

\* what the last handler did: its name, its border argument, the payload it
\* logged, its error, the meshes it read and the buffer it exported
Result(op, border, logged, error, seen, stl) ==
  [op |-> op, border |-> border, logged |-> logged, error |-> error,
   seen |-> seen, stl |-> stl]

Init ==
  /\ scene = NewThreeDScene.scene
  /\ qrGroup = NewThreeDScene.qrGroup
  /\ drawn = NoDraw
  /\ last = Result("new", 0, "", "none", <<>>, NoStl)
  /\ data = NoForm
  /\ content = JsUndefined
  /\ contentJs = JsUndefined

This == [scene |-> scene, qrGroup |-> qrGroup]

\* the state after a handler that ended in r = [this, error], having drawn qr
Redrawn(r, op, qr, border) ==
  /\ scene' = r.this.scene
  /\ qrGroup' = r.this.qrGroup
  /\ drawn' = IF r.error = "none" THEN [qr |-> qr, border |-> border] ELSE drawn
  /\ last' = Result(op, border, r.logged, r.error, <<>>, NoStl)
  /\ UNCHANGED <<data, content, contentJs>>

DrawBarcode ==
  \E qr \in Grids, border \in Borders :
    \E r \in {drawBarcode(This, qr, border) @@ [logged |-> ""]} :
      Redrawn(r, "drawBarcode", qr, border)

\* a frame: renderer.render(scene, camera)
Animate ==
  /\ last' = Result("animate", 0, "", "none", Traverse(scene), NoStl)
  /\ UNCHANGED <<scene, qrGroup, drawn, data, content, contentJs>>

ExportAsSTL ==
  /\ last' = Result("exportAsSTL", 0, "", "none", Traverse(scene), STLExporterParse(scene))
  /\ UNCHANGED <<scene, qrGroup, drawn, data, content, contentJs>>

SubmitContent(uri) ==
  \E encoded \in generateQrCode(uri) :
    \E r \in {submitHandler(This, uri, encoded)} :
      Redrawn(r, "submit", encoded.qr, qrBorderMm)

Submit ==
  \E form \in SubmitForms : SubmitContent(getWifiEasyConnectUri(SubmittedData(form)))

Next == DrawBarcode \/ Animate \/ ExportAsSTL \/ Submit

Spec == Init /\ [][Next]_vars

(***************************************************************************)
(* The payload builder alone: every form input, then both variants.        *)
(***************************************************************************)
InitUri ==
  /\ scene = NewThreeDScene.scene
  /\ qrGroup = NewThreeDScene.qrGroup
  /\ drawn = NoDraw
  /\ last = Result("new", 0, "", "none", <<>>, NoStl)
  /\ data \in Forms
  /\ content = JsUndefined
  /\ contentJs = JsUndefined

BuildUriTs ==
  /\ content = JsUndefined
  /\ content' = JsString(getWifiEasyConnectUri(data))
  /\ UNCHANGED <<scene, qrGroup, drawn, last, data, contentJs>>

BuildUriJs ==
  /\ contentJs = JsUndefined
  /\ contentJs' = JsString(getWifiEasyConnectUriJs(data))
  /\ UNCHANGED <<scene, qrGroup, drawn, last, data, content>>

NextUri == BuildUriTs \/ BuildUriJs

SpecUri == InitUri /\ [][NextUri]_vars

(***************************************************************************)
(* Properties.                                                             *)
(***************************************************************************)
RangeError == "RangeError: Value out of range"

DarkSolids(group) == { i \in 1 .. Len(group.children) : group.children[i].color = colorDark }

LightSolids(group) == { i \in 1 .. Len(group.children) : group.children[i].color = colorLight }

GroupsIn(sc) == { i \in 1 .. Len(sc) : sc[i].type = "Group" }

RECURSIVE NumSolids(_)
NumSolids(sc) == IF sc = <<>> THEN 0 ELSE Len(Head(sc).children) + NumSolids(Tail(sc))

\* C1: after a successful drawBarcode(qr, border) on a grid of size >= 1 with
\* border > 0, the QR group holds exactly (number of true modules) + 1 solids:
\* one dark box per true module and exactly one base plate, whatever was drawn
\* before.
C1_SolidCount ==
  (drawn.qr.size >= 1 /\ drawn.border > 0) =>
    /\ Len(qrGroup.children) = Cardinality(drawn.qr.modules) + 1
    /\ Cardinality(DarkSolids(qrGroup)) = Cardinality(drawn.qr.modules)
    /\ Cardinality(LightSolids(qrGroup)) = 1

\* a redraw of a grid with two dark modules that follows an earlier redraw
C1_Witness ==
  /\ last.op = "drawBarcode" /\ last.error = "none"
  /\ qrGroup.id = 0
  /\ drawn.qr.size = 2 /\ Cardinality(drawn.qr.modules) = 2
  /\ Len(qrGroup.children) = 3

\* C2: drawBarcode with border <= 0 fails with "Value out of range" and leaves
\* the scene and the QR group as they were; with border = 5 it succeeds.
C2_BorderRejected ==
  [][ /\ (last'.op = "drawBarcode" /\ last'.border <= 0) =>
           (last'.error = RangeError /\ scene' = scene /\ qrGroup' = qrGroup)
      /\ (last'.op = "drawBarcode" /\ last'.border = 5) => last'.error = "none"
    ]_vars

\* a rejected drawBarcode(qr, 0) while a drawn barcode is displayed
C2_Witness ==
  /\ last.op = "drawBarcode" /\ last.border = 0 /\ last.error = RangeError
  /\ Len(qrGroup.children) >= 2
  /\ \E i \in GroupsIn(scene) : scene[i] = qrGroup

\* C3: every read of the scene by the renderer or the exporter sees the solids
\* of one group only, the group of the most recent successful redraw, and old
\* groups never accumulate in the scene.
C3_SingleGeneration ==
  /\ Cardinality(GroupsIn(scene)) <= 1
  /\ last.op \in {"animate", "exportAsSTL"} =>
       /\ \A i \in 1 .. Len(last.seen) : last.seen[i].group = qrGroup.id
       /\ drawn = NoDraw => last.seen = <<>>
       /\ drawn # NoDraw =>
            /\ Len(last.seen) = Cardinality(drawn.qr.modules) + 1
            /\ \A i \in 1 .. Len(last.seen) : last.seen[i].mesh = qrGroup.children[i]

\* a frame rendered after a second redraw
C3_Witness ==
  /\ last.op = "animate"
  /\ qrGroup.id = 0
  /\ Len(last.seen) >= 2

\* C4: exportAsSTL produces 84 + 50 * T bytes, where T = 12 * (solids in the
\* scene) is the count in the header and the number of 50-byte records; the
\* all-false grid of size 10 gives 1 solid, 12 triangles and 684 bytes.
C4_StlLength ==
  last.op = "exportAsSTL" =>
    LET solids == NumSolids(scene)
        T == 12 * solids
    IN /\ last.stl.byteLength = 84 + 50 * T
       /\ last.stl.header = T
       /\ last.stl.records = T
       /\ last.stl.end = last.stl.byteLength
       /\ drawn.qr = EmptyGrid10 =>
            (solids = 1 /\ last.stl.header = 12 /\ last.stl.byteLength = 684)

\* an export of the all-false grid of size 10, drawn after another barcode
C4_Witness ==
  /\ last.op = "exportAsSTL"
  /\ drawn.qr = EmptyGrid10
  /\ qrGroup.id = 0
  /\ last.stl.byteLength = 684

\* C5: when the encoder rejects the payload of a form submission, the redraw
\* is aborted and the scene, the QR group and what they show are unchanged.
C5_EncodingFailureKeepsScene ==
  [][ (last'.op = "submit" /\ last'.error = "EncodingFailed") =>
        (scene' = scene /\ qrGroup' = qrGroup /\ drawn' = drawn) ]_vars

\* a rejected submission while a drawn barcode is displayed
C5_Witness ==
  /\ last.op = "submit" /\ last.error = "EncodingFailed"
  /\ Len(qrGroup.children) >= 2
  /\ \E i \in GroupsIn(scene) : scene[i] = qrGroup

\* C6: a drawBarcode on a zero-size grid is rejected like a non-positive
\* border: it never succeeds.
C6_ZeroSizeGridRejected ==
  ~(last.op = "drawBarcode" /\ last.error = "none" /\ drawn.qr.size = 0)

(***************************************************************************)
(* The payload the claims describe, segment by segment.                    *)
(***************************************************************************)
Segment(present, text) == IF present THEN ";" \o text ELSE ""

Payload(form, withSecurity, withHidden) ==
  "WIFI:S:" \o TemplateString(FormGet(form, "ssid"))
    \o Segment(withSecurity, "T:" \o TemplateString(FormGet(form, "security")))
    \o Segment(withSecurity, "P:" \o TemplateString(FormGet(form, "password")))
    \o Segment(withHidden, "H:true")

\* the hidden field is present and not empty
NetworkHidden(form) == form.hidden # <<>> /\ form.hidden # <<"">>

\* C7 as stated: T and P exactly when a security is given and it is not "none"
C7_PayloadAsStated ==
  content # JsUndefined =>
    content.s = Payload(data, data.security \notin {<<>>, <<"none">>}, NetworkHidden(data))

\* C7: getWifiEasyConnectUri returns "WIFI:" and the segments joined by ";":
\* S:<ssid> always; T:<security> and P:<password> exactly when security is
\* present, not empty and not "none"; H:true exactly when hidden is set. The
\* two examples of the claim give exactly the strings it names.
C7_Payload ==
  content # JsUndefined =>
    /\ content.s =
         Payload(data, data.security \notin {<<>>, <<"">>, <<"none">>}, NetworkHidden(data))
    /\ data = FormHomeOpen => content.s = "WIFI:S:Home"
    /\ data = FormHomeWpa => content.s = "WIFI:S:Home;T:WPA;P:secret;H:true"

\* the payload of ssid=Home, security=WPA, password=secret, hidden
C7_Witness ==
  /\ data = FormHomeWpa
  /\ content = JsString("WIFI:S:Home;T:WPA;P:secret;H:true")

(***************************************************************************)
(* Footprints and heights of the solids of a group.                        *)
(***************************************************************************)
Two == Num(1 + 1)

XMin(m) == NumSub(m.position.x, NumDiv(m.geometry.width, Two))
XMax(m) == NumAdd(m.position.x, NumDiv(m.geometry.width, Two))
YMin(m) == NumSub(m.position.y, NumDiv(m.geometry.height, Two))
YMax(m) == NumAdd(m.position.y, NumDiv(m.geometry.height, Two))
ZMin(m) == NumSub(m.position.z, NumDiv(m.geometry.depth, Two))
ZMax(m) == NumAdd(m.position.z, NumDiv(m.geometry.depth, Two))

AllFinite(m) ==
  /\ IsFinite(m.position.x) /\ IsFinite(m.position.y) /\ IsFinite(m.position.z)
  /\ IsFinite(m.geometry.width) /\ IsFinite(m.geometry.height) /\ IsFinite(m.geometry.depth)

\* the footprints share a region of positive area
FootprintsOverlap(a, b) ==
  /\ NumLt(XMin(a), XMax(b)) /\ NumLt(XMin(b), XMax(a))
  /\ NumLt(YMin(a), YMax(b)) /\ NumLt(YMin(b), YMax(a))

FootprintInside(a, b) ==
  /\ NumLe(XMin(b), XMin(a)) /\ NumLe(XMax(a), XMax(b))
  /\ NumLe(YMin(b), YMin(a)) /\ NumLe(YMax(a), YMax(b))

\* C8: within the solids of one build, no two module solids' footprints
\* overlap in positive area, every module footprint lies inside the base
\* plate's, and every module's bottom face is at z = 0, the plate's top face.
C8_NoIntersection ==
  LET c == qrGroup.children
  IN /\ \A i \in 1 .. Len(c) : AllFinite(c[i])
     /\ \A i, j \in DarkSolids(qrGroup) : i # j => ~FootprintsOverlap(c[i], c[j])
     /\ \A i \in DarkSolids(qrGroup) :
          /\ ZMin(c[i]) = Num(0)
          /\ \A b \in LightSolids(qrGroup) :
               FootprintInside(c[i], c[b]) /\ ZMax(c[b]) = Num(0)
     /\ drawn # NoDraw => Cardinality(LightSolids(qrGroup)) = 1

\* two module solids that share an edge, on a base plate
C8_Witness ==
  LET c == qrGroup.children
  IN /\ LightSolids(qrGroup) # {}
     /\ \E i, j \in DarkSolids(qrGroup) :
          /\ XMax(c[i]) = XMin(c[j])
          /\ YMin(c[i]) = YMin(c[j])

(***************************************************************************)
(* The dark cells of a grid in row-major order.                            *)
(***************************************************************************)
CellIndex(qr, c) == c[2] * qr.size + c[1]

RowMajor(qr, i) ==
  CHOOSE c \in qr.modules :
    Cardinality({ d \in qr.modules : CellIndex(qr, d) < CellIndex(qr, c) }) = i - 1

\* the centre coordinate of column or row k: k * scale - 40 + scale / 2
Centre(k, scale) == NumAdd(NumSub(NumMul(Num(k), scale), Num(40)), NumDiv(scale, Two))

\* C9: for a grid of size >= 1, with scale = 80 / size, the solid of the true
\* module (x, y) has footprint scale x scale, height 2 and centre
\* (x*scale - 40 + scale/2, -(y*scale - 40 + scale/2), 1), so its bottom is at
\* z = 0 and its top at z = 2; the module solids come in row-major order and
\* the base plate is last.
C9_ModulePlacement ==
  (drawn.qr.size >= 1) =>
    LET qr == drawn.qr
        n == Cardinality(qr.modules)
        scale == Frac(80, qr.size)
        c == qrGroup.children
    IN /\ Len(c) = n + 1
       /\ \A i \in 1 .. n :
            LET cell == RowMajor(qr, i)
            IN /\ c[i].color = colorDark
               /\ c[i].geometry = [width |-> scale, height |-> scale, depth |-> Num(2)]
               /\ c[i].position.x = Centre(cell[1], scale)
               /\ c[i].position.y = NumNeg(Centre(cell[2], scale))
               /\ c[i].position.z = Num(1)
               /\ ZMin(c[i]) = Num(0) /\ ZMax(c[i]) = Num(2)
       /\ c[n + 1].color = colorLight

\* the grid of size 2 with dark modules (1, 0) and (0, 1), drawn: the solid of
\* (1, 0) comes first
C9_Witness ==
  /\ drawn.qr = [size |-> 2, modules |-> {<<1, 0>>, <<0, 1>>}]
  /\ Len(qrGroup.children) = 3
  /\ qrGroup.children[1].position = [x |-> Num(20), y |-> Num(20), z |-> Num(1)]
  /\ qrGroup.children[2].position = [x |-> Num(-20), y |-> Num(-20), z |-> Num(1)]

\* C10: the two variants of getWifiEasyConnectUri (src/main.js and
\* src/src/main.ts) return the same payload for every form input.
C10_VariantsAgree ==
  (content # JsUndefined /\ contentJs # JsUndefined) => content = contentJs

====
